---- MODULE Spec2Model ----
(***************************************************************************)
(* Model of app.js: the tuner session (start / stop / microphone change /  *)
(* getUserMedia continuation / animation-frame loop), the exponential      *)
(* smoother, the note math, the pitch history and the reference tone.      *)
(*                                                                         *)
(* Frequencies are fixed-point integers counted in 1/Unit Hz, so that the  *)
(* smoother's 0.2 / 0.8 weights are exact integer arithmetic.              *)
(***************************************************************************)
EXTENDS Integers, Sequences, FiniteSets, TLC

\* ------------------------------------------------------------------ bounds
\* Number of start() invocations (Start clicks and microphone changes).
MaxStarts == 2
\* Number of loop() executions after which no further animation frame is run.
MaxLoops == 3
\* Number of pushHistory calls beyond HISTORY_MAX explored by SpecHistory.
MaxOverflow == 3

\* --------------------------------------------------------------- constants
Null == -1
\* The value of loop()'s local `freq` when line 206 was never reached.
Undefined == -2

Unit == 5 * 5 * 5 * 5 * 5 * 5 * 5

MIN_FREQUENCY == 80
MAX_FREQUENCY == 1500
A4 == 440
HISTORY_MAX == 800
\* smoothAlpha = 0.2 = smoothAlphaNum / smoothAlphaDen
smoothAlphaNum == 1
smoothAlphaDen == 5

\* `if (x)` on a number-or-null value: null and 0 are falsy.
Truthy(x) == x # Null /\ x # 0

VARIABLES
    audioContext,  \* Null or Ctx
    analyser, sourceNode, hpFilter, lpFilter, compressor,  \* Null or graph id
    refOsc,        \* Null or Osc
    mediaStream,   \* Null or stream id
    running,       \* BOOLEAN
    animationId,   \* Null or the handle returned by requestAnimationFrame
    smoothedFreq,  \* 0 or a frequency in 1/Unit Hz
    history,       \* sequence of Null | frequency
    errorBox,      \* text of the error box
    audioActive,   \* the 'active' class of the audio indicator
    presentation,  \* what the note / frequency / cents / needle / piano show
    \* the browser
    rafQueue,      \* handles of the animation-frame callbacks still pending
    gumPending,    \* start() calls suspended at `await getUserMedia`
    liveTracks,    \* streams handed out by getUserMedia whose tracks run
    \* bookkeeping
    nStarts,       \* start() invocations so far; the next call's id
    loops,         \* loop() executions so far
    freq,          \* loop()'s local `freq` in its latest execution
    stopReturned,  \* stop() has returned and start() was not invoked since
    everAccepted,  \* some non-null estimate reached the smoother
    pushed,        \* every value ever passed to pushHistory, in order
    \* a pure function called on its own (SpecPitch, SpecNotes)
    arg,           \* the arguments of the call
    result         \* what the call returned, with its locals

nodeVars == <<analyser, sourceNode, hpFilter, lpFilter, compressor>>
tickVars == <<smoothedFreq, history, presentation, freq, everAccepted, pushed>>
vars == <<audioContext, analyser, sourceNode, hpFilter, lpFilter, compressor,
          refOsc, mediaStream, running, animationId, smoothedFreq, history,
          errorBox, audioActive, presentation, rafQueue, gumPending,
          liveTracks, nStarts, loops, freq, stopReturned, everAccepted, pushed,
          arg, result>>
callVars == <<arg, result>>

Ctx == 1
Osc == 1

\* --------------------------------------------------------------- note math
\* What Math.round(Math.log2(x)) yields for x <= 0 (NaN or -Infinity).
NonFinite == -3

NOTE_NAMES == <<"Do", "Do#/Reb", "Re", "Re#/Mib", "Mi", "Fa", "Fa#/Solb",
                "Sol", "Sol#/Lab", "La", "La#/Sib", "Si">>

\* Math.log2 by table.  A4 * 16 * Unit = 550000000 lies in the octave
\* [SemitoneBounds[1], SemitoneBounds[13]); SemitoneBounds[j + 1] is the
\* least integer >= A4 * 16 * Unit * 2^((j - 1/2) / 12), the frequency at
\* which Math.round steps from note 69 + 48 + j - 1 up to 69 + 48 + j.
SemitoneBounds ==
    <<534342568, 566116231, 599779253, 635443984, 673229449, 713261756,
      755674507, 800609251, 848215954, 898653500, 952090218, 1008704448,
      1068685136>>

\* A4 * 16 * Unit * 2^(j / 12) for j = 0 .. 11, to the nearest integer.
NoteFreqs ==
    <<550000000, 582704702, 617354127, 654063913, 692956577, 734161920,
      777817459, 824068892, 873070579, 924986057, 979988590, 1038261744>>

\* CentBounds[c + 51] is the least integer >= 10^8 * 2^((c - 1/2) / 1200),
\* for c = -50 .. 51: the ratio at which Math.round steps from c - 1 to c.
CentBounds ==
    <<97125140, 97181258, 97237408, 97293591, 97349806, 97406054, 97462334,
      97518646, 97574992, 97631370, 97687780, 97744223, 97800698, 97857207,
      97913748, 97970321, 98026927, 98083566, 98140238, 98196942, 98253679,
      98310449, 98367252, 98424088, 98480956, 98537857, 98594792, 98651759,
      98708759, 98765791, 98822857, 98879956, 98937088, 98994253, 99051451,
      99108681, 99165945, 99223242, 99280573, 99337936, 99395332, 99452762,
      99510225, 99567721, 99625250, 99682812, 99740408, 99798037, 99855699,
      99913395, 99971124, 100028886, 100086681, 100144510, 100202373,
      100260269, 100318198, 100376161, 100434157, 100492187, 100550250,
      100608347, 100666478, 100724642, 100782839, 100841071, 100899336,
      100957634, 101015966, 101074332, 101132732, 101191165, 101249633,
      101308134, 101366668, 101425237, 101483839, 101542476, 101601146,
      101659850, 101718588, 101777360, 101836166, 101895006, 101953880,
      102012787, 102071729, 102130705, 102189715, 102248760, 102307838,
      102366950, 102426097, 102485277, 102544492, 102603741, 102663025,
      102722342, 102781694, 102841081, 102900501, 102959956>>

RECURSIVE Pow2(_)
Pow2(k) == IF k <= 0 THEN 1 ELSE 2 * Pow2(k - 1)

\* <<m, k>> with m = f * 2^k inside the table's octave (f > 0).
RECURSIVE ToTableOctave(_, _)
ToTableOctave(m, k) ==
    IF m < SemitoneBounds[1] THEN ToTableOctave(2 * m, k + 1)
    ELSE IF m >= SemitoneBounds[13] THEN ToTableOctave(m \div 2, k - 1)
    ELSE <<m, k>>

\* freqToMidi with Math.floor for Math.round: the note steps up at the
\* note's own frequency.
freqToMidiFloor(f) ==
    IF f <= 0 THEN NonFinite
    ELSE LET n == ToTableOctave(f, 0)
             j == Cardinality({i \in 1 .. 12 : n[1] >= NoteFreqs[i]})
         IN  69 + 12 * (4 - n[2]) + j - 1

\* Math.round(12 * Math.log2(freq / A4) + 69)
freqToMidi(f) ==
    IF f <= 0 THEN NonFinite
    ELSE LET n == ToTableOctave(f, 0)
             j == Cardinality({i \in 2 .. 12 : n[1] >= SemitoneBounds[i]})
         IN  69 + 12 * (4 - n[2]) + j

\* A4 * Math.pow(2, (midi - 69) / 12), to the nearest 1/Unit Hz.
midiToFreq(midi) ==
    LET j == (midi - 69) % 12
        down == 4 - ((midi - 69 - j) \div 12)
    IN  IF down <= 0 THEN NoteFreqs[j + 1] * Pow2(-down)
        ELSE (NoteFreqs[j + 1] + Pow2(down - 1)) \div Pow2(down)

\* `${NOTE_NAMES[midi % 12]}${Math.floor(midi / 12) - 1}`
midiToNoteName(midi) ==
    NOTE_NAMES[(midi % 12) + 1] \o ToString((midi \div 12) - 1)

\* floor(f * 10^n / t) by long division, r the running remainder.
RECURSIVE LongDivide(_, _, _, _)
LongDivide(r, t, n, acc) ==
    IF n = 0 THEN acc
    ELSE LongDivide((r * 10) % t, t, n - 1, acc * 10 + ((r * 10) \div t))

\* Math.round(1200 * Math.log2(freq / target)); ratios beyond the table
\* (more than 50.5 cents away) come out as -51 or 51.
centsOff(f, target) ==
    IF f <= 0 \/ target <= 0 THEN NonFinite
    ELSE LET ratio == LongDivide(f % target, target, 8, f \div target)
         IN  Cardinality({i \in 1 .. 102 : ratio >= CentBounds[i]}) - 51

\* ----------------------------------------------------------- presentation
\* smoothedFreq.toFixed(1), in tenths of a Hz.
toFixed1(s) == (s \div Unit) * 10 + ((20 * (s % Unit) + Unit) \div (2 * Unit))

\* moveNeedle: Math.max(-50, Math.min(50, cents || 0)); the needle turns by
\* half that many degrees.
moveNeedle(cents) ==
    LET c == IF cents = Null \/ cents = NonFinite THEN 0 ELSE cents
        lo == IF c < 50 THEN c ELSE 50
    IN  IF lo > -50 THEN lo ELSE -50

\* highlightPiano: the key made active, of the keys buildPiano created.
highlightPiano(midi) ==
    IF midi # Null /\ midi >= 48 /\ midi <= 84 THEN midi ELSE Null

\* loop(), lines 208-212: what a tick without a pitch shows.
NoPitch ==
    [noteName |-> "--", freqHz |-> "0.0 Hz", cents |-> "--",
     needle |-> moveNeedle(0), piano |-> highlightPiano(Null)]

\* The page before the first tick.
InitialPresentation ==
    [noteName |-> "", freqHz |-> "", cents |-> "", needle |-> 0,
     piano |-> Null]

\* loop(), lines 219-229: what a tick shows for the smoothed frequency s.
NoteResult(s) ==
    LET midi == freqToMidi(s)
        targetFreq == midiToFreq(midi)
        cents == centsOff(s, targetFreq)
        tenths == toFixed1(s)
    IN  [noteName |-> midiToNoteName(midi),
         freqHz |-> ToString(tenths \div 10) \o "." \o ToString(tenths % 10)
                        \o " Hz",
         cents |-> ToString(cents) \o " cents",
         needle |-> moveNeedle(cents),
         piano |-> highlightPiano(midi)]

\* ----------------------------------------------------------------- history
\* pushHistory with history.pop() in place of history.shift().
pushHistoryPop(h, f) ==
    LET h1 == Append(h, f)
    IN  IF Len(h1) > HISTORY_MAX THEN SubSeq(h1, 1, Len(h1) - 1) ELSE h1

\* history.push(freq); if (history.length > HISTORY_MAX) history.shift();
pushHistory(h, f) ==
    LET h1 == Append(h, f)
    IN  IF Len(h1) > HISTORY_MAX THEN Tail(h1) ELSE h1

\* ---------------------------------------------------------------- smoother
\* NextSmoothed with a silent tick resetting the smoother.
NextSmoothedReset(s, f) ==
    IF ~Truthy(f) THEN 0
    ELSE IF Truthy(s)
         THEN (smoothAlphaNum * f + (smoothAlphaDen - smoothAlphaNum) * s)
                  \div smoothAlphaDen
         ELSE f

\* NextSmoothed with the two weights exchanged.
NextSmoothedSwapped(s, f) ==
    IF ~Truthy(f) THEN s
    ELSE IF Truthy(s)
         THEN ((smoothAlphaDen - smoothAlphaNum) * f + smoothAlphaNum * s)
                  \div smoothAlphaDen
         ELSE f

\* NextSmoothed without the first-estimate case of line 217.
NextSmoothedNoFirst(s, f) ==
    IF ~Truthy(f) THEN s
    ELSE (smoothAlphaNum * f + (smoothAlphaDen - smoothAlphaNum) * s)
             \div smoothAlphaDen

\* loop(), lines 207-217: the smoothed value after a tick whose estimate is f.
NextSmoothed(s, f) ==
    IF ~Truthy(f) THEN s
    ELSE IF Truthy(s)
         THEN (smoothAlphaNum * f + (smoothAlphaDen - smoothAlphaNum) * s)
                  \div smoothAlphaDen
         ELSE f

\* historyEntry passing on the tick's own estimate.
historyEntryRaw(e, s) == IF ~Truthy(e) THEN Null ELSE e

\* loop(), lines 213 and 230: the argument of pushHistory on a tick whose
\* estimate is e and whose smoothed frequency, after line 217, is s.
historyEntry(e, s) == IF ~Truthy(e) THEN Null ELSE s

\* shown computing the note from the tick's own estimate.
shownRaw(e, s) == IF ~Truthy(e) THEN NoPitch ELSE NoteResult(e)

\* loop(), lines 207-229: what the tick writes to the page.
shown(e, s) == IF ~Truthy(e) THEN NoPitch ELSE NoteResult(s)

\* --------------------------------------------------------- pitch detection
\* Samples are integers counted in 1/SampleScale, so the autocorrelation
\* c[lag] is an integer counted in 1/SampleScale^2.  SampleScale is a power
\* of two: the Float32Array of line 34 holds such samples exactly, and the
\* sums of lines 169 and 178 and the Float32Array of line 174 are exact too.
SampleScale == 256

\* MIN_RMS = 0.01 = 1 / MIN_RMS_DEN
MIN_RMS_DEN == 100

Abs(x) == IF x < 0 THEN -x ELSE x

RECURSIVE Gcd(_, _)
Gcd(a, b) == IF b = 0 THEN a ELSE Gcd(b, a % b)

\* rms < MIN_RMS is sum / (n * SampleScale^2) < 1 / MIN_RMS_DEN^2, that is
\* sum * RmsNum < n * RmsDen with the common factor taken out.
RmsNum ==
    (MIN_RMS_DEN * MIN_RMS_DEN)
        \div Gcd(MIN_RMS_DEN * MIN_RMS_DEN, SampleScale * SampleScale)
RmsDen ==
    (SampleScale * SampleScale)
        \div Gcd(MIN_RMS_DEN * MIN_RMS_DEN, SampleScale * SampleScale)

\* lines 170 and 178: the sum of buf[i] * buf[i + lag] over i, from index i.
RECURSIVE SumProducts(_, _, _)
SumProducts(buf, lag, i) ==
    IF i + lag > Len(buf) THEN 0
    ELSE buf[i] * buf[i + lag] + SumProducts(buf, lag, i + 1)

\* belowMinRms with the sum of squares not divided by buf.length.
belowMinRmsNoMean(buf) ==
    /\ Len(buf) > 0
    /\ SumProducts(buf, 0, 1) * RmsNum < RmsDen

\* lines 169-172: rms < MIN_RMS.  For the empty buffer rms is NaN and the
\* comparison is false.
belowMinRms(buf) ==
    /\ Len(buf) > 0
    /\ SumProducts(buf, 0, 1) * RmsNum < Len(buf) * RmsDen

\* lines 174-180: c, indexed from 1 (c[lag + 1] is the code's c[lag]).
autoCorr(buf) == [k \in 1 .. Len(buf) |-> SumProducts(buf, k - 1, 1)]

\* lines 182-183: the d at which the while loop stops.
RECURSIVE skipDescent(_, _)
skipDescent(c, d) ==
    IF d < Len(c) - 1 /\ c[d + 1] > c[d + 2] THEN skipDescent(c, d + 1)
    ELSE d

\* findMax taking the last of equal maxima (`>=` for `>`).
RECURSIVE findMaxLast(_, _, _, _)
findMaxLast(c, i, max, maxPos) ==
    IF i >= Len(c) THEN maxPos
    ELSE IF c[i + 1] >= max THEN findMaxLast(c, i + 1, c[i + 1], i)
         ELSE findMaxLast(c, i + 1, max, maxPos)

\* lines 184-190: maxPos after the for loop, entered at index i.
RECURSIVE findMax(_, _, _, _)
findMax(c, i, max, maxPos) ==
    IF i >= Len(c) THEN maxPos
    ELSE IF c[i + 1] > max THEN findMax(c, i + 1, c[i + 1], i)
         ELSE findMax(c, i + 1, max, maxPos)

\* outOfRange without the upper limit.
outOfRangeLowOnly(p, q) == p < MIN_FREQUENCY * q

\* line 198, for freq = p / q with q > 0.
outOfRange(p, q) == p < MIN_FREQUENCY * q \/ p > MAX_FREQUENCY * q

\* Return values: null, NaN, or the frequency num / den Hz (den > 0).
ReturnNull == [kind |-> "null", num |-> 0, den |-> 1]
ReturnNaN == [kind |-> "NaN", num |-> 0, den |-> 1]
ReturnFreq(p, q) == [kind |-> "freq", num |-> p, den |-> q]

\* lines 194-199 for y3 - y1 = n and 2 * (2 * y2 - y1 - y3) = m: the value
\* returned, following IEEE division (x / 0 is an infinity, 0 / 0 is NaN).
freqFromPeak(sampleRate, maxPos, n, m) ==
    IF m = 0
    THEN \* shift and peak are NaN (n = 0) or an infinity (freq is then 0)
         IF n = 0 THEN ReturnNaN ELSE ReturnNull
    ELSE LET g == Gcd(Abs(n), Abs(m))
             sn == (IF m < 0 THEN -n ELSE n) \div g
             sd == Abs(m) \div g
             pk == maxPos * sd + sn       \* peak = pk / sd
         IN  IF pk = 0
             THEN \* freq is an infinity, or NaN when sampleRate is 0
                  IF sampleRate = 0 THEN ReturnNaN ELSE ReturnNull
             ELSE LET p == IF pk < 0 THEN -(sampleRate * sd)
                           ELSE sampleRate * sd
                      q == Abs(pk)
                  IN  IF outOfRange(p, q) THEN ReturnNull
                      ELSE ReturnFreq(p, q)

\* A call that has not returned.
NotCalled ==
    [ret |-> [kind |-> "pending", num |-> 0, den |-> 1], c |-> <<>>,
     interpolated |-> FALSE, maxPos |-> -1, y1 |-> 0, y2 |-> 0, y3 |-> 0]

\* detectPitchAutoCorr(buf, sampleRate): its return value `ret` with the
\* locals it computed on the way (c is <<>> when line 175 was not reached).
detectPitchAutoCorr(buf, sampleRate) ==
    IF belowMinRms(buf)
    THEN [NotCalled EXCEPT !.ret = ReturnNull]
    ELSE LET c == autoCorr(buf)
             d == skipDescent(c, 0)
             maxPos == findMax(c, d, -(SampleScale * SampleScale), -1)
         IN  IF maxPos <= 0
             THEN [NotCalled EXCEPT !.ret = ReturnNull, !.c = c,
                                    !.maxPos = maxPos]
             ELSE LET y1 == c[maxPos]
                      y2 == c[maxPos + 1]
                      \* c[maxPos + 1] || y2: undefined and 0 are falsy
                      y3 == IF maxPos + 2 <= Len(c) /\ c[maxPos + 2] # 0
                            THEN c[maxPos + 2] ELSE y2
                  IN  [ret |-> freqFromPeak(sampleRate, maxPos, y3 - y1,
                                            2 * (2 * y2 - y1 - y3)),
                       c |-> c, interpolated |-> TRUE, maxPos |-> maxPos,
                       y1 |-> y1, y2 |-> y2, y3 |-> y3]

\* What detectPitchAutoCorr can return for some frame: null, or a frequency
\* within [MIN_FREQUENCY, MAX_FREQUENCY].
Estimates == {Null, MIN_FREQUENCY * Unit, MAX_FREQUENCY * Unit}

\* ------------------------------------------------------------------ actions
Handles == 1 .. (MaxStarts + 1)

\* requestAnimationFrame(loop) with q pending: a handle no pending callback
\* has.  Handles of callbacks that ran or were cancelled are reused; every
\* allocation is stored into animationId, the only place a handle is kept.
requestAnimationFrame(q) ==
    CHOOSE h \in Handles : h \notin q /\ \A g \in Handles : g < h => g \in q

\* loop(): q is the callback queue when loop() is entered, e the estimate
\* detectPitchAutoCorr returns for the frame read from the analyser `an`.
loop(q, an, e) ==
    LET h == requestAnimationFrame(q)
    IN  /\ animationId' = h
        /\ rafQueue' = q \cup {h}
        /\ loops' = loops + 1
        /\ IF an = Null
           THEN \* analyser.getFloatTimeDomainData throws a TypeError
                /\ freq' = Undefined
                /\ UNCHANGED <<smoothedFreq, history, presentation,
                               everAccepted, pushed>>
           ELSE /\ freq' = e
                /\ smoothedFreq' = NextSmoothed(smoothedFreq, e)
                /\ everAccepted' = (everAccepted \/ Truthy(e))
                /\ presentation' = shown(e, smoothedFreq')
                /\ history' = pushHistory(history, historyEntry(e, smoothedFreq'))
                /\ pushed' = Append(pushed, historyEntry(e, smoothedFreq'))

destroyStream ==
    /\ rafQueue' = IF Truthy(animationId) THEN rafQueue \ {animationId}
                   ELSE rafQueue
    /\ animationId' = Null
    /\ liveTracks' = IF mediaStream # Null THEN liveTracks \ {mediaStream}
                     ELSE liveTracks
    /\ mediaStream' = Null
    /\ sourceNode' = Null
    /\ hpFilter' = Null
    /\ lpFilter' = Null
    /\ compressor' = Null
    /\ analyser' = Null
    /\ audioActive' = FALSE

\* start(), lines 136-149, up to the suspension at `await getUserMedia`.
startCall ==
    /\ nStarts < MaxStarts
    /\ errorBox' = ""
    /\ audioContext' = IF audioContext = Null THEN Ctx ELSE audioContext
    /\ nStarts' = nStarts + 1
    /\ gumPending' = gumPending \cup {nStarts + 1}
    /\ stopReturned' = FALSE

\* startBtn click handler.
StartClick ==
    /\ UNCHANGED callVars
    /\ startCall
    /\ UNCHANGED <<nodeVars, refOsc, mediaStream, running, animationId,
                   audioActive, rafQueue, liveTracks, loops, tickVars>>

\* micSelect change handler.
MicChange ==
    /\ UNCHANGED callVars
    /\ running
    /\ destroyStream
    /\ startCall
    /\ UNCHANGED <<refOsc, running, loops, tickVars>>

\* startCatch without `running = false`.
startCatchKeepsRunning ==
    /\ errorBox' = "Microphone access failed"
    /\ running' = running
    /\ audioActive' = FALSE

\* start()'s catch block, lines 155-159.
startCatch ==
    /\ errorBox' = "Microphone access failed"
    /\ running' = FALSE
    /\ audioActive' = FALSE

\* getUserMedia resolves for the suspended call c: start(), lines 149-154.
\* outcome: which statement, if any, throws.
GumResolve(c, outcome, e) ==
    /\ c \in gumPending
    /\ gumPending' = gumPending \ {c}
    /\ mediaStream' = c
    /\ liveTracks' = liveTracks \cup {c}
    /\ UNCHANGED <<audioContext, refOsc, nStarts, stopReturned, callVars>>
    /\ CASE outcome = "createMediaStreamSourceThrows" ->
              /\ startCatch
              /\ UNCHANGED <<nodeVars, animationId, rafQueue, loops, tickVars>>
         [] outcome = "buildGraphThrows" ->
              \* lines 94-111 assign the nodes, a connect() of 113-116 throws
              /\ sourceNode' = c
              /\ analyser' = c
              /\ hpFilter' = c
              /\ lpFilter' = c
              /\ compressor' = c
              /\ startCatch
              /\ UNCHANGED <<animationId, rafQueue, loops, tickVars>>
         [] outcome = "ok" ->
              /\ sourceNode' = c
              /\ analyser' = c
              /\ hpFilter' = c
              /\ lpFilter' = c
              /\ compressor' = c
              /\ running' = TRUE
              /\ audioActive' = TRUE
              /\ UNCHANGED errorBox
              /\ loop(rafQueue, c, e)

Outcomes == {"ok", "createMediaStreamSourceThrows", "buildGraphThrows"}

\* getUserMedia rejects for the suspended call c.
GumReject(c) ==
    /\ UNCHANGED callVars
    /\ c \in gumPending
    /\ gumPending' = gumPending \ {c}
    /\ startCatch
    /\ UNCHANGED <<audioContext, nodeVars, refOsc, mediaStream, animationId,
                   rafQueue, liveTracks, nStarts, loops, stopReturned,
                   tickVars>>

\* StopClick silencing the reference tone as well.
StopClickStopsTone ==
    /\ UNCHANGED callVars
    /\ running' = FALSE
    /\ destroyStream
    /\ stopReturned' = TRUE
    /\ refOsc' = Null
    /\ UNCHANGED <<audioContext, errorBox, gumPending, nStarts, loops,
                   tickVars>>

\* stopBtn click handler: stop().
StopClick ==
    /\ UNCHANGED callVars
    /\ running' = FALSE
    /\ destroyStream
    /\ stopReturned' = TRUE
    /\ UNCHANGED <<audioContext, refOsc, errorBox, gumPending, nStarts,
                   loops, tickVars>>

\* The browser runs the pending animation-frame callback h: loop().
AnimationFrame(h, e) ==
    /\ UNCHANGED callVars
    /\ h \in rafQueue
    /\ loops < MaxLoops
    /\ loop(rafQueue \ {h}, analyser, e)
    /\ UNCHANGED <<audioContext, nodeVars, refOsc, mediaStream, running,
                   errorBox, audioActive, gumPending, liveTracks, nStarts,
                   stopReturned>>

\* refToneToggle change handler: setRefTone(on).
setRefTone(on) ==
    /\ UNCHANGED callVars
    /\ audioContext' = IF audioContext = Null THEN Ctx ELSE audioContext
    /\ refOsc' = IF on THEN (IF refOsc = Null THEN Osc ELSE refOsc) ELSE Null
    /\ UNCHANGED <<nodeVars, mediaStream, running, animationId, errorBox,
                   audioActive, rafQueue, gumPending, liveTracks, nStarts,
                   loops, stopReturned, tickVars>>

\* The page after boot().
SessionInit ==
    /\ audioContext = Null
    /\ analyser = Null
    /\ sourceNode = Null
    /\ hpFilter = Null
    /\ lpFilter = Null
    /\ compressor = Null
    /\ refOsc = Null
    /\ mediaStream = Null
    /\ running = FALSE
    /\ animationId = Null
    /\ smoothedFreq = 0
    /\ history = <<>>
    /\ errorBox = ""
    /\ audioActive = FALSE
    /\ presentation = InitialPresentation
    /\ rafQueue = {}
    /\ gumPending = {}
    /\ liveTracks = {}
    /\ nStarts = 0
    /\ loops = 0
    /\ freq = Undefined
    /\ stopReturned = FALSE
    /\ everAccepted = FALSE
    /\ pushed = <<>>

Init ==
    /\ SessionInit
    /\ arg = Null
    /\ result = Null

Next ==
    \/ StartClick
    \/ MicChange
    \/ \E c \in 1 .. MaxStarts, o \in Outcomes, e \in Estimates :
           GumResolve(c, o, e)
    \/ \E c \in 1 .. MaxStarts : GumReject(c)
    \/ StopClick
    \/ \E h \in Handles, e \in Estimates : AnimationFrame(h, e)
    \/ \E on \in BOOLEAN : setRefTone(on)

Spec == Init /\ [][Next]_vars

\* ------------------------------------------------- pushHistory on its own
\* The k-th value of a stream of distinct in-range frequencies.
Ramp(k) == (MIN_FREQUENCY + (k % (MAX_FREQUENCY - MIN_FREQUENCY + 1))) * Unit

PushValues == Estimates \cup {Ramp(k) : k \in 0 .. HISTORY_MAX}

\* One pushHistory call.  The calls that fill the buffer push the ramp; the
\* call that fills it and the MaxOverflow calls after it push any estimate.
HistoryPush(v) ==
    /\ UNCHANGED callVars
    /\ Len(pushed) < HISTORY_MAX + MaxOverflow
    /\ IF Len(pushed) < HISTORY_MAX - 1 THEN v = Ramp(Len(pushed))
       ELSE v \in Estimates
    /\ history' = pushHistory(history, v)
    /\ pushed' = Append(pushed, v)
    /\ UNCHANGED <<audioContext, nodeVars, refOsc, mediaStream, running,
                   animationId, smoothedFreq, errorBox, audioActive,
                   presentation, rafQueue, gumPending, liveTracks, nStarts,
                   loops, freq, stopReturned, everAccepted>>

HistoryNext == \E v \in PushValues : HistoryPush(v)

SpecHistory == Init /\ [][HistoryNext]_vars

\* ------------------------------------------- detectPitchAutoCorr on its own
\* Longest frame tried.
FrameLen == 4
\* Largest sample magnitude of a pattern.
MaxSample == 2

\* Quiet frames (samples of a few thousandths) and loud ones (up to 1.0).
Levels == {1, SampleScale \div MaxSample}

Patterns == UNION {[1 .. n -> -MaxSample .. MaxSample] : n \in 0 .. FrameLen}

\* audioContext.sampleRate is positive; 0 and a negative rate are malformed.
SampleRates == {44100, 8000, 1000, 100, 0, -44100}

PitchInit ==
    /\ SessionInit
    /\ \E pat \in Patterns, lv \in Levels, sr \in SampleRates :
           arg = [buf |-> [i \in 1 .. Len(pat) |-> lv * pat[i]],
                  sampleRate |-> sr]
    /\ result = NotCalled

PitchCall ==
    /\ result = NotCalled
    /\ result' = detectPitchAutoCorr(arg.buf, arg.sampleRate)
    /\ UNCHANGED <<audioContext, nodeVars, refOsc, mediaStream, running,
                   animationId, errorBox, audioActive, rafQueue, gumPending,
                   liveTracks, nStarts, loops, stopReturned, tickVars, arg>>

SpecPitch == PitchInit /\ [][PitchCall]_vars

\* ------------------------------------------------------ note math on its own
\* freqToMidi(midiToFreq(arg)) for a note index of the piano range 21 .. 108.
NotesInit ==
    /\ SessionInit
    /\ arg \in 21 .. 108
    /\ result = Null

NotesCall ==
    /\ result = Null
    /\ result' = freqToMidi(midiToFreq(arg))
    /\ UNCHANGED <<audioContext, nodeVars, refOsc, mediaStream, running,
                   animationId, errorBox, audioActive, rafQueue, gumPending,
                   liveTracks, nStarts, loops, stopReturned, tickVars, arg>>

SpecNotes == NotesInit /\ [][NotesCall]_vars

\* ----------------------------------- destroyStream statement by statement
\* In SpecDestroy `arg` is the frame of the destroyStream call in progress:
\* its caller and the state it was entered in; `result` is the line about to
\* run with the lines whose node.disconnect() has run.
NoCall ==
    [caller |-> "none", animationId |-> Null, mediaStream |-> Null,
     nodes |-> <<Null, Null, Null, Null, Null>>, rafQueue |-> {},
     liveTracks |-> {}]

Entered(caller) ==
    [caller |-> caller, animationId |-> animationId,
     mediaStream |-> mediaStream, nodes |-> nodeVars, rafQueue |-> rafQueue,
     liveTracks |-> liveTracks]

\* Program order with the four disconnects and the discarding of the
\* references moved in front of the cancellation.
NextStatementNodesFirst(line) ==
    CASE line = 119 -> 126
      [] line = 126 -> 127
      [] line = 127 -> 128
      [] line = 128 -> 129
      [] line = 129 -> 130
      [] line = 130 -> 120
      [] line = 120 -> 121
      [] line = 121 -> 123
      [] line = 123 -> 124
      [] line = 124 -> 131

\* Program order of destroyStream: the line that runs after `line` (119 is
\* the function's entry; the test of line 122 is part of lines 123 and 124).
NextStatement(line) ==
    CASE line = 119 -> 120
      [] line = 120 -> 121
      [] line = 121 -> 123
      [] line = 123 -> 124
      [] line = 124 -> 126
      [] line = 126 -> 127
      [] line = 127 -> 128
      [] line = 128 -> 129
      [] line = 129 -> 130
      [] line = 130 -> 131

InCall == arg.caller # "none"
At(line) == InCall /\ result.pc = line
Goto(line) == result' = [result EXCEPT !.pc = line]

\* stop(), line 163, and the entry into destroyStream of line 164.
StopEnter ==
    /\ ~InCall
    /\ running' = FALSE
    /\ arg' = Entered("stop")
    /\ result' = [pc |-> NextStatement(119), disconnected |-> {}]
    /\ UNCHANGED <<audioContext, nodeVars, refOsc, mediaStream, animationId,
                   errorBox, audioActive, rafQueue, gumPending, liveTracks,
                   nStarts, loops, stopReturned, tickVars>>

\* micSelect change handler, line 327, and the entry of line 328.
MicChangeEnter ==
    /\ ~InCall
    /\ running
    /\ nStarts < MaxStarts
    /\ arg' = Entered("micChange")
    /\ result' = [pc |-> NextStatement(119), disconnected |-> {}]
    /\ UNCHANGED <<audioContext, nodeVars, refOsc, mediaStream, running,
                   animationId, errorBox, audioActive, rafQueue, gumPending,
                   liveTracks, nStarts, loops, stopReturned, tickVars>>

\* line 120: if (animationId) cancelAnimationFrame(animationId)
CancelTick ==
    /\ At(120)
    /\ rafQueue' = IF Truthy(animationId) THEN rafQueue \ {animationId}
                   ELSE rafQueue
    /\ Goto(NextStatement(120))
    /\ UNCHANGED <<audioContext, nodeVars, refOsc, mediaStream, running,
                   animationId, errorBox, audioActive, gumPending, liveTracks,
                   nStarts, loops, stopReturned, tickVars, arg>>

\* line 121: animationId = null
ClearAnimationId ==
    /\ At(121)
    /\ animationId' = Null
    /\ Goto(NextStatement(121))
    /\ UNCHANGED <<audioContext, nodeVars, refOsc, mediaStream, running,
                   errorBox, audioActive, rafQueue, gumPending, liveTracks,
                   nStarts, loops, stopReturned, tickVars, arg>>

\* lines 122-123: if (mediaStream) mediaStream.getTracks().forEach(stop)
StopTracks ==
    /\ At(123)
    /\ liveTracks' = IF mediaStream # Null THEN liveTracks \ {mediaStream}
                     ELSE liveTracks
    /\ Goto(NextStatement(123))
    /\ UNCHANGED <<audioContext, nodeVars, refOsc, mediaStream, running,
                   animationId, errorBox, audioActive, rafQueue, gumPending,
                   nStarts, loops, stopReturned, tickVars, arg>>

\* lines 122 and 124: if (mediaStream) mediaStream = null
ClearMediaStream ==
    /\ At(124)
    /\ mediaStream' = Null
    /\ Goto(NextStatement(124))
    /\ UNCHANGED <<audioContext, nodeVars, refOsc, running, animationId,
                   errorBox, audioActive, rafQueue, gumPending, liveTracks,
                   nStarts, loops, stopReturned, tickVars, arg>>

\* The node variable that line 126, 127, 128 or 129 tests.
NodeAt(line) ==
    CASE line = 126 -> sourceNode
      [] line = 127 -> hpFilter
      [] line = 128 -> lpFilter
      [] line = 129 -> compressor

\* lines 126-129: if (node) node.disconnect()
Disconnect(line) ==
    /\ At(line)
    /\ result' = [pc |-> NextStatement(line),
                  disconnected |-> IF NodeAt(line) # Null
                                   THEN result.disconnected \cup {line}
                                   ELSE result.disconnected]
    /\ UNCHANGED <<audioContext, nodeVars, refOsc, mediaStream, running,
                   animationId, errorBox, audioActive, rafQueue, gumPending,
                   liveTracks, nStarts, loops, stopReturned, tickVars, arg>>

\* line 130: sourceNode = hpFilter = lpFilter = compressor = analyser = null
DiscardNodes ==
    /\ At(130)
    /\ sourceNode' = Null
    /\ hpFilter' = Null
    /\ lpFilter' = Null
    /\ compressor' = Null
    /\ analyser' = Null
    /\ Goto(NextStatement(130))
    /\ UNCHANGED <<audioContext, refOsc, mediaStream, running, animationId,
                   errorBox, audioActive, rafQueue, gumPending, liveTracks,
                   nStarts, loops, stopReturned, tickVars, arg>>

\* line 131 and the return into stop(), which returns too.
ReturnToStop ==
    /\ At(131)
    /\ arg.caller = "stop"
    /\ audioActive' = FALSE
    /\ stopReturned' = TRUE
    /\ arg' = NoCall
    /\ result' = [pc |-> 0, disconnected |-> {}]
    /\ UNCHANGED <<audioContext, nodeVars, refOsc, mediaStream, running,
                   animationId, errorBox, rafQueue, gumPending, liveTracks,
                   nStarts, loops, tickVars>>

\* line 131 and the return into the change handler, which calls start()
\* (line 329).  start() sets audioActive only after its await.
ReturnToMicChange ==
    /\ At(131)
    /\ arg.caller = "micChange"
    /\ audioActive' = FALSE
    /\ startCall
    /\ arg' = NoCall
    /\ result' = [pc |-> 0, disconnected |-> {}]
    /\ UNCHANGED <<nodeVars, refOsc, mediaStream, running, animationId,
                   rafQueue, liveTracks, loops, tickVars>>

\* One estimate is enough here: destroyStream does not read the tick's data.
DestroyEstimates == {MIN_FREQUENCY * Unit}

DestroyInit ==
    /\ SessionInit
    /\ arg = NoCall
    /\ result = [pc |-> 0, disconnected |-> {}]

\* Handlers run to completion: nothing else runs inside a call.
DestroyNext ==
    \/ ~InCall /\ StartClick
    \/ \E c \in 1 .. MaxStarts, o \in Outcomes, e \in DestroyEstimates :
           ~InCall /\ GumResolve(c, o, e)
    \/ \E c \in 1 .. MaxStarts : ~InCall /\ GumReject(c)
    \/ \E h \in Handles, e \in DestroyEstimates :
           ~InCall /\ AnimationFrame(h, e)
    \/ \E on \in BOOLEAN : ~InCall /\ setRefTone(on)
    \/ StopEnter
    \/ MicChangeEnter
    \/ CancelTick
    \/ ClearAnimationId
    \/ StopTracks
    \/ ClearMediaStream
    \/ \E line \in 126 .. 129 : Disconnect(line)
    \/ DiscardNodes
    \/ ReturnToStop
    \/ ReturnToMicChange

SpecDestroy == DestroyInit /\ [][DestroyNext]_vars

\* ================================================================== claims
\* A step in which loop() ran (from start() or as an animation-frame callback).
LoopRan == loops' = loops + 1

\* The session as the idle state describes it.
Idle ==
    /\ ~running
    /\ animationId = Null
    /\ mediaStream = Null
    /\ analyser = Null
    /\ sourceNode = Null
    /\ hpFilter = Null
    /\ lpFilter = Null
    /\ compressor = Null

\* C1: once stop() has returned, loop() is not executed again unless start()
\* was invoked after that stop().
C1_NoLoopAfterStop == [][LoopRan => ~stopReturned]_vars

\* C2: when stop() returns, the tracks of every stream a completed start()
\* acquired are stopped, and mediaStream and the five node variables are null.
C2_StopReleasesAll ==
    [][StopClick => /\ liveTracks' = {}
                    /\ mediaStream' = Null
                    /\ sourceNode' = Null
                    /\ hpFilter' = Null
                    /\ lpFilter' = Null
                    /\ compressor' = Null
                    /\ analyser' = Null]_vars

\* C3: when start() fails after getUserMedia resolved (createMediaStreamSource
\* or buildGraph throws), the acquired stream's tracks are stopped and neither
\* the stream nor a node is retained.
C3_FailedStartReleases ==
    [][\A c \in 1 .. MaxStarts : \A o \in Outcomes \ {"ok"} :
          GumResolve(c, o, Null) =>
              /\ c \notin liveTracks'
              /\ mediaStream' = Null
              /\ sourceNode' = Null
              /\ hpFilter' = Null
              /\ lpFilter' = Null
              /\ compressor' = Null
              /\ analyser' = Null]_vars

\* C4: stop() on an idle session changes none of running, animationId,
\* mediaStream, the node variables, smoothedFreq and history, and leaves no
\* tick scheduled.  stop() can be called in every idle state and, by the
\* first conjunct, does not touch the callback queue there (animationId is
\* null), so it leaves no tick scheduled exactly if none is pending in that
\* idle state: the second conjunct.
C4_StopWhenIdle ==
    /\ [][(Idle /\ StopClick) =>
              UNCHANGED <<running, animationId, mediaStream, nodeVars,
                          smoothedFreq, history, rafQueue>>]_vars
    /\ [](Idle => rafQueue = {})

\* C5: whenever loop() runs, analyser is non-null.
C5_LoopHasAnalyser == [][LoopRan => analyser' # Null]_vars

\* C6: a tick whose estimate is None leaves smoothedFreq unchanged, smoothedFreq
\* is never null, and so on the stream f1, None, f1, None, ... (each estimate
\* None or equal to the current smoothed value) smoothedFreq stays what the
\* first application made it.
C6_NoneKeepsSmoothed ==
    /\ [][(LoopRan /\ smoothedFreq # 0 /\ freq' \in {Null, smoothedFreq})
              => smoothedFreq' = smoothedFreq]_vars
    /\ [][(LoopRan /\ freq' = Null) => smoothedFreq' = smoothedFreq]_vars
    /\ [](smoothedFreq # Null /\ smoothedFreq # Undefined)

\* C6 witness: the stream f1, None, f1 has been fed and smoothedFreq is f1.
C6_Witness ==
    /\ Len(pushed) = 3
    /\ pushed[1] # Null
    /\ pushed[2] = Null
    /\ pushed[3] = pushed[1]
    /\ freq = pushed[1]
    /\ smoothedFreq = pushed[1]

\* C7: a tick with estimate f sets smoothedFreq to f when no estimate was
\* accepted before and to 0.2 * f + 0.8 * smoothedFreq otherwise, exactly; no
\* other step changes smoothedFreq.
C7_SmootherUpdate ==
    [][IF LoopRan /\ freq' # Null /\ freq' # Undefined
       THEN IF everAccepted
            THEN smoothAlphaDen * smoothedFreq' =
                     smoothAlphaNum * freq'
                     + (smoothAlphaDen - smoothAlphaNum) * smoothedFreq
            ELSE smoothedFreq' = freq'
       ELSE smoothedFreq' = smoothedFreq]_vars

\* C7 witness: 1500 Hz arrived on top of a smoothed 80 Hz: 0.2 * 1500 +
\* 0.8 * 80 = 364 Hz.
C7_Witness ==
    /\ everAccepted
    /\ freq = MAX_FREQUENCY * Unit
    /\ smoothedFreq = 364 * Unit

\* C8: after k pushHistory calls history holds the last min(k, HISTORY_MAX)
\* pushed values in the order pushed, and never more than HISTORY_MAX.
C8_HistoryKeepsLast ==
    LET k == Len(pushed)
        n == IF k < HISTORY_MAX THEN k ELSE HISTORY_MAX
    IN  /\ Len(history) = n
        /\ Len(history) <= HISTORY_MAX
        /\ history = SubSeq(pushed, k - n + 1, k)

\* C8 witness: HISTORY_MAX + 1 values were pushed; the first is gone.
C8_Witness ==
    /\ Len(pushed) = HISTORY_MAX + 1
    /\ Len(history) = HISTORY_MAX
    /\ history[1] = pushed[2]
    /\ history[1] # pushed[1]
    /\ history[HISTORY_MAX] = pushed[HISTORY_MAX + 1]

\* C9 as claimed: every tick appends exactly one entry to history, the
\* tick's own estimate (None when the estimate is None).
C9_AppendsRawEstimate ==
    [][LoopRan => history' = pushHistory(history, freq')]_vars

\* C9 amended: a tick that reads a frame appends exactly one entry, None
\* when its estimate is None and otherwise the smoothed frequency after the
\* tick; a tick that finds no analyser appends nothing.
C9_AppendsSmoothed ==
    [][LoopRan =>
          IF freq' = Undefined THEN history' = history
          ELSE history' = pushHistory(history,
                                      IF freq' = Null THEN Null
                                      ELSE smoothedFreq')]_vars

\* C9 witness: the tick's estimate was 1500 Hz and the entry appended is the
\* smoothed 364 Hz.
C9_Witness ==
    /\ freq = MAX_FREQUENCY * Unit
    /\ Len(history) >= 2
    /\ history[Len(history)] = 364 * Unit
    /\ history[Len(history) - 1] = MIN_FREQUENCY * Unit

\* C10 as claimed: every tick while running in which the smoother holds a
\* non-zero value, a tick whose own estimate is None included, shows the
\* NoteResult of the smoothed value.
C10_AlwaysShowsNote ==
    [][(LoopRan /\ running' /\ smoothedFreq' # 0)
           => presentation' = NoteResult(smoothedFreq')]_vars

\* C10 amended: a tick that reads a frame shows the NoteResult of the
\* smoothed value when its own estimate is not None, and "no pitch" when it
\* is None, whatever the smoother holds; a tick that finds no analyser shows
\* nothing new.
C10_ShowsNoteOnEstimate ==
    [][LoopRan =>
          presentation' =
              CASE freq' = Undefined -> presentation
                [] freq' = Null -> NoPitch
                [] OTHER -> NoteResult(smoothedFreq')]_vars

\* C10 witness: a running session whose smoother holds a value has just had
\* a tick without an estimate, and shows "no pitch".
C10_Witness ==
    /\ running
    /\ freq = Null
    /\ smoothedFreq # 0
    /\ presentation = NoPitch
    /\ presentation # NoteResult(smoothedFreq)

\* C11: when getUserMedia rejects, that start() call neither sets running nor
\* calls loop(); on its return running is false, the audio indicator is off
\* and an error message is shown.
C11_RejectNeverRuns ==
    [][\A c \in 1 .. MaxStarts :
          GumReject(c) => /\ ~running'
                          /\ ~audioActive'
                          /\ errorBox' # ""
                          /\ loops' = loops
                          /\ rafQueue' = rafQueue]_vars

\* C11 witness: the only start() so far was rejected.
C11_Witness ==
    /\ nStarts = 1
    /\ gumPending = {}
    /\ liveTracks = {}
    /\ mediaStream = Null
    /\ loops = 0
    /\ ~running
    /\ errorBox # ""

\* C12: a step that changes refOsc changes nothing of the tuner session, and
\* setRefTone changes none of running, mediaStream, animationId, the node
\* variables, smoothedFreq and history.
C12_RefToneIndependent ==
    /\ [][refOsc' # refOsc =>
              UNCHANGED <<running, mediaStream, animationId, nodeVars,
                          smoothedFreq, history, rafQueue, liveTracks,
                          gumPending, nStarts, loops, stopReturned, errorBox,
                          audioActive, presentation>>]_vars
    /\ [][(\E on \in BOOLEAN : setRefTone(on)) =>
              UNCHANGED <<running, mediaStream, animationId, nodeVars,
                          smoothedFreq, history>>]_vars

\* C12 witness: the tone plays while a session that ran ticks has been
\* stopped.
C12_Witness ==
    /\ refOsc = Osc
    /\ stopReturned
    /\ loops > 0
    /\ ~running

\* C18: at most one animation-frame callback is pending, and animationId
\* holds the handle of the pending one.
C18_OnePendingTick ==
    /\ Cardinality(rafQueue) <= 1
    /\ (rafQueue # {} => animationId \in rafQueue)

\* C20: smoothedFreq is 0 or within [MIN_FREQUENCY, MAX_FREQUENCY]; once
\* non-zero it stays non-zero; loop() passes only positive frequencies to
\* freqToMidi and centsOff.
C20_SmoothedInRange ==
    /\ [](smoothedFreq = 0 \/ (/\ smoothedFreq >= MIN_FREQUENCY * Unit
                               /\ smoothedFreq <= MAX_FREQUENCY * Unit))
    /\ [][smoothedFreq # 0 => smoothedFreq' # 0]_vars
    /\ [][(LoopRan /\ freq' # Null /\ freq' # Undefined) =>
              /\ smoothedFreq' > 0
              /\ midiToFreq(freqToMidi(smoothedFreq')) > 0]_vars

\* C20 witness: a smoothed 80 Hz has outlived later ticks and a stop().
C20_Witness ==
    /\ smoothedFreq = MIN_FREQUENCY * Unit
    /\ stopReturned
    /\ loops >= 2
    /\ freq = Null

\* The call of SpecPitch has returned.
PitchReturned == result.ret.kind # "pending"

\* rms < 0.01 for the frame of the call: the mean square of the samples is
\* below (1 / 100)^2, both sides of the comparison divided by 4 * 4.
ArgRmsBelowThreshold ==
    /\ Len(arg.buf) > 0
    /\ 25 * 25 * SumProducts(arg.buf, 0, 1)
           < Len(arg.buf) * (SampleScale \div 4) * (SampleScale \div 4)

\* C14: for a frame whose RMS is below 0.01 detectPitchAutoCorr returns None
\* and computes no autocorrelation.
C14_SilenceGate ==
    (PitchReturned /\ ArgRmsBelowThreshold)
        => (result.ret.kind = "null" /\ result.c = <<>>)

\* C14 witness: a sub-threshold alternating frame (amplitude 0.005) and the
\* all-zero frame of the same length are both gated; here the alternating one.
C14_Witness ==
    /\ PitchReturned
    /\ arg.buf = <<1, -1, 1, -1>>
    /\ arg.sampleRate = 1000
    /\ result.ret.kind = "null"
    /\ result.c = <<>>

\* C15: detectPitchAutoCorr returns None or a frequency within [80, 1500];
\* when sampleRate / peak is outside that range it returns None.
C15_ResultInRange ==
    PitchReturned =>
        /\ \/ result.ret.kind = "null"
           \/ /\ result.ret.kind = "freq"
              /\ result.ret.den > 0
              /\ result.ret.num >= 80 * result.ret.den
              /\ result.ret.num <= 1500 * result.ret.den
        /\ result.interpolated =>
               LET m == 2 * (2 * result.y2 - result.y1 - result.y3)
                   n == result.y3 - result.y1
                   g == Gcd(Abs(n), Abs(m))
                   \* peak = pk / sd, sd > 0 (m # 0 is C19)
                   sd == Abs(m) \div g
                   pk == result.maxPos * sd
                             + ((IF m < 0 THEN -n ELSE n) \div g)
               IN  (m # 0 /\ pk > 0 /\
                    (arg.sampleRate * sd < 80 * pk
                        \/ arg.sampleRate * sd > 1500 * pk))
                       => result.ret.kind = "null"

\* C15 witness: one frame read at 44100 Hz is rejected as too high (peak 3.5
\* gives 12600 Hz) -- here the same frame at 1000 Hz, returned as 2000 / 7 Hz.
C15_Witness ==
    /\ PitchReturned
    /\ Len(arg.buf) = 4
    /\ arg.buf[1] >= SampleScale \div 2
    /\ arg.buf = <<arg.buf[1], 0, -arg.buf[1], 0>>
    /\ arg.sampleRate = 1000
    /\ result.ret = ReturnFreq(2000, 7)

\* C16: a call with an empty frame or a sample rate <= 0 fails with
\* InvalidInput: it returns neither None nor a frequency.
C16_MalformedInputFails ==
    (PitchReturned /\ (Len(arg.buf) = 0 \/ arg.sampleRate <= 0))
        => result.ret.kind = "InvalidInput"

\* C17: freqToMidi(midiToFreq(n)) = n for every note index n in 21 .. 108.
C17_NoteRoundTrip == (result # Null) => (result = arg)

\* C17 witness: the round trip ran for the highest note, C8 at 4186.01 Hz,
\* three octaves and three semitones above A4.
C17_Witness ==
    /\ arg = 108
    /\ result = 108
    /\ midiToFreq(arg) > 4186 * Unit
    /\ midiToFreq(arg) < 4187 * Unit

\* C19: when the parabolic interpolation is reached, its denominator is not
\* zero, the shift lies in [-1/2, 1/2], and the peak is positive and within
\* half a sample of maxPos.
C19_InterpolationDefined ==
    (PitchReturned /\ result.interpolated) =>
        LET m == 2 * (2 * result.y2 - result.y1 - result.y3)
            n == result.y3 - result.y1
        IN  /\ result.maxPos > 0
            /\ m # 0
            /\ 2 * Abs(n) <= Abs(m)
            \* peak = maxPos + n / m > 0
            /\ (IF m > 0 THEN result.maxPos * m + n
                ELSE -(result.maxPos * m + n)) > 0

\* C19 witness: a frame whose autocorrelation peaks inside the buffer, with
\* a non-zero shift.
C19_Witness ==
    /\ PitchReturned
    /\ result.interpolated
    /\ result.maxPos + 1 < Len(result.c)
    /\ result.y3 # result.y1
    /\ result.y1 < result.y2
    /\ result.y3 < result.y2

\* Inside destroyStream, some node has been disconnected, or some node
\* reference is no longer the one the call was entered with.
NodeReleased ==
    /\ InCall
    /\ \/ result.disconnected # {}
       \/ <<sourceNode, hpFilter, lpFilter, compressor>>
              # <<arg.nodes[2], arg.nodes[3], arg.nodes[4], arg.nodes[5]>>

\* C13: in destroyStream the pending tick handle is cancelled and the tracks
\* of the media stream are stopped before any of sourceNode, hpFilter,
\* lpFilter, compressor is disconnected or its reference discarded.
C13_CancelAndStopFirst ==
    NodeReleased =>
        /\ Truthy(arg.animationId) => arg.animationId \notin rafQueue
        /\ arg.mediaStream # Null => arg.mediaStream \notin liveTracks

\* C13 witness: the first disconnect has run in a call entered with a
\* pending tick and a live stream.
C13_Witness ==
    /\ NodeReleased
    /\ result.disconnected = {126}
    /\ arg.animationId \in arg.rafQueue
    /\ arg.mediaStream \in arg.liveTracks
    /\ arg.animationId \notin rafQueue
    /\ arg.mediaStream \notin liveTracks

====
